---- MODULE Spec2Model ----
(***************************************************************************)
(* Harmonic matching engine of spotify_dj_assist_site                      *)
(* (src/funcs/match_funcs.py, src/funcs/features_funcs.py).                *)
(*                                                                         *)
(* A Python str is a sequence of one-character strings, so that indexing   *)
(* (camelot_key[0], camelot_key[1]), int(), str() and concatenation are    *)
(* computed as Python computes them.  A tempo is an integer number of      *)
(* tenths of a BPM (120.0 BPM is 1200), and so is a tempo tolerance.  A     *)
(* raised exception is the err field of a call's result.                   *)
(***************************************************************************)
EXTENDS Integers, Sequences, FiniteSets, TLC

VARIABLES features_df, op, args, ret

vars == <<features_df, op, args, ret>>

(* ------------------------------ bounds -------------------------------- *)

\* The longest pool (number of rows of features_df).
MaxPool == 2

(* ------------------------- Python primitives -------------------------- *)

None == <<>>

Some(x) == <<x>>

Digits == <<"0", "1", "2", "3", "4", "5", "6", "7", "8", "9">>

IsDigit(c) == \E d \in 1..10 : Digits[d] = c

\* int(c) of a one-character string that is a decimal digit.
int(c) == (CHOOSE d \in 1..10 : Digits[d] = c) - 1

\* str(n) of an integer.
RECURSIVE str(_)
str(n) ==
    IF n < 0 THEN <<"-">> \o str(-n)
    ELSE IF n < 10 THEN <<Digits[n + 1]>>
    ELSE str(n \div 10) \o <<Digits[(n % 10) + 1]>>

\* np.abs
abs(n) == IF n < 0 THEN -n ELSE n

\* s[i] with Python's 0-based index (the caller checks i < len(s)).
At(s, i) == s[i + 1]

Ok(v) == [err |-> "none", val |-> v]

Raise(e) == [err |-> e, val |-> <<>>]

(* --------------------------- Camelot mapper --------------------------- *)

NotAvailable == <<"N", "/", "A">>

\* docs/camelot_converter.json: the 24 (spotify_key, spotify_mode) entries of
\* the Camelot wheel, minor (mode 0) on letter A and major (mode 1) on B.
CamelotTable ==
    [km \in (0..11) \X {0, 1} |->
        IF km[2] = 1 THEN str(((7 * km[1] + 7) % 12) + 1) \o <<"B">>
        ELSE str(((7 * km[1] + 4) % 12) + 1) \o <<"A">>]

\* get_camelot(row): key_mode_to_camelot.get((key, mode), 'N/A')
get_camelot(row) ==
    IF <<row.key, row.mode>> \in DOMAIN CamelotTable
    THEN CamelotTable[<<row.key, row.mode>>]
    ELSE NotAvailable

\* df['Camelot_Key'] = df.apply(get_camelot, axis=1)
convert_spotify_to_camelot(df) ==
    [i \in 1..Len(df) |-> df[i] @@ ("Camelot_Key" :> get_camelot(df[i]))]

(* ---------------------------- tempo grouper --------------------------- *)

\* A float column's cell: a number, or NaN where the row has no value.
Float(v) == [nan |-> FALSE, val |-> v]

NaN == [nan |-> TRUE, val |-> 0]

\* Series.round(0) of a tempo in tenths of a BPM: to the nearest whole BPM,
\* a half to the even one.
round(t) ==
    LET whole == t \div 10
        tenth == t % 10
    IN  IF tenth < 5 THEN 10 * whole
        ELSE IF tenth > 5 THEN 10 * (whole + 1)
        ELSE IF whole % 2 = 0 THEN 10 * whole ELSE 10 * (whole + 1)

\* A row has the field "tempo" or not; the frame has the column 'tempo' when
\* a row has it, and a row without it then holds NaN, which rounds to NaN.
add_tempo_grouping(df) ==
    IF \E i \in 1..Len(df) : "tempo" \in DOMAIN df[i]
    THEN [i \in 1..Len(df) |->
            df[i] @@ ("Tempo_Group" :>
                        IF "tempo" \in DOMAIN df[i] THEN Float(round(df[i].tempo))
                        ELSE NaN)]
    ELSE [i \in 1..Len(df) |-> df[i] @@ ("Tempo_Group" :> Float(0))]

(* ---------------------------- filter engine --------------------------- *)

\* int(x) of a float in tenths: truncation towards zero.
int_of_float(x) == IF x >= 0 THEN 10 * (x \div 10) ELSE -(10 * ((-x) \div 10))

\* df[column].min() and df[column].max() of a frame with rows.
column_min(df, column) ==
    CHOOSE v \in { df[i][column] : i \in 1..Len(df) } :
        \A i \in 1..Len(df) : v <= df[i][column]

column_max(df, column) ==
    CHOOSE v \in { df[i][column] : i \in 1..Len(df) } :
        \A i \in 1..Len(df) : v >= df[i][column]

\* st.slider(label, min_value, max_value, value, step) that the user leaves
\* alone: it returns value.
slider(min_value, max_value, value, step) == value

\* The six ranges of filter_songs with every slider left at its default.
slider_ranges(df) ==
    LET tempo_min == int_of_float(column_min(df, "tempo"))
        tempo_max == int_of_float(column_max(df, "tempo"))
        loudness_min == int_of_float(column_min(df, "loudness"))
        loudness_max == int_of_float(column_max(df, "loudness"))
    IN  [danceability |-> slider(0, 100,
                <<column_min(df, "danceability"), column_max(df, "danceability")>>, 5),
         energy |-> slider(0, 100,
                <<column_min(df, "energy"), column_max(df, "energy")>>, 5),
         valence |-> slider(0, 100,
                <<column_min(df, "valence"), column_max(df, "valence")>>, 5),
         tempo |-> slider(tempo_min, tempo_max, <<tempo_min, tempo_max>>, 10),
         acousticness |-> slider(0, 100,
                <<column_min(df, "acousticness"), column_max(df, "acousticness")>>, 5),
         loudness |-> slider(loudness_min, loudness_max,
                <<loudness_min, loudness_max>>, 10)]

Features == {"danceability", "energy", "valence", "tempo", "acousticness", "loudness"}

\* The rows inside all six ranges.
filter_songs(df) ==
    LET ranges == slider_ranges(df)
    IN  [err |-> "none",
         ranges |-> ranges,
         filtered_df |-> SelectSeq(df, LAMBDA r :
            \A f \in Features : r[f] >= ranges[f][1] /\ r[f] <= ranges[f][2])]

(* ------------------------- compatibility rules ------------------------ *)

\* The same-key rule without the exclusion of the chosen song.
match_same_key_tempo_with_self(df, chosen_song_id, tempo, camelot_key, tempo_tolerance) ==
    [err |-> "none",
     matches |-> SelectSeq(df, LAMBDA r :
                    /\ r.Camelot_Key = camelot_key
                    /\ abs(r.tempo - tempo) <= tempo_tolerance)]

\* The chosen song's key and tempo window, minus the chosen song itself.
match_same_key_tempo(df, chosen_song_id, tempo, camelot_key, tempo_tolerance) ==
    [err |-> "none",
     matches |-> SelectSeq(df, LAMBDA r :
                    /\ r.Camelot_Key = camelot_key
                    /\ abs(r.tempo - tempo) <= tempo_tolerance
                    /\ r.ID # chosen_song_id)]

\* str(int(k[0])+1) + k[1] if k[0] != '12' else '1' + k[1]
camelot_key_up(k) ==
    IF Len(k) < 1 THEN Raise("IndexError")
    ELSE IF At(k, 0) # "12"
         THEN IF ~IsDigit(At(k, 0)) THEN Raise("ValueError")
              ELSE IF Len(k) < 2 THEN Raise("IndexError")
              ELSE Ok(str(int(At(k, 0)) + 1) \o <<At(k, 1)>>)
         ELSE IF Len(k) < 2 THEN Raise("IndexError")
              ELSE Ok(<<"1">> \o <<At(k, 1)>>)

\* str(int(k[0])-1) + k[1] if k[0] != '1' else '12' + k[1]
camelot_key_down(k) ==
    IF Len(k) < 1 THEN Raise("IndexError")
    ELSE IF At(k, 0) # "1"
         THEN IF ~IsDigit(At(k, 0)) THEN Raise("ValueError")
              ELSE IF Len(k) < 2 THEN Raise("IndexError")
              ELSE Ok(str(int(At(k, 0)) - 1) \o <<At(k, 1)>>)
         ELSE IF Len(k) < 2 THEN Raise("IndexError")
              ELSE Ok(<<"1", "2">> \o <<At(k, 1)>>)

\* The fifth rule with a tempo window that is open at both ends.
matches_fifth_open_window(df, tempo, camelot_key, tempo_tolerance) ==
    LET up == camelot_key_up(camelot_key)
        down == camelot_key_down(camelot_key)
    IN  IF up.err # "none" THEN [err |-> up.err, matches_up |-> <<>>, matches_down |-> <<>>]
        ELSE IF down.err # "none" THEN [err |-> down.err, matches_up |-> <<>>, matches_down |-> <<>>]
        ELSE [err |-> "none",
              matches_up |-> SelectSeq(df, LAMBDA r :
                    /\ r.Camelot_Key = up.val
                    /\ abs(r.tempo - tempo) < tempo_tolerance),
              matches_down |-> SelectSeq(df, LAMBDA r :
                    /\ r.Camelot_Key = down.val
                    /\ abs(r.tempo - tempo) < tempo_tolerance)]

\* A fifth up and a fifth down from the chosen song's key.
matches_fifth(df, tempo, camelot_key, tempo_tolerance) ==
    LET up == camelot_key_up(camelot_key)
        down == camelot_key_down(camelot_key)
    IN  IF up.err # "none" THEN [err |-> up.err, matches_up |-> <<>>, matches_down |-> <<>>]
        ELSE IF down.err # "none" THEN [err |-> down.err, matches_up |-> <<>>, matches_down |-> <<>>]
        ELSE [err |-> "none",
              matches_up |-> SelectSeq(df, LAMBDA r :
                    /\ r.Camelot_Key = up.val
                    /\ abs(r.tempo - tempo) <= tempo_tolerance),
              matches_down |-> SelectSeq(df, LAMBDA r :
                    /\ r.Camelot_Key = down.val
                    /\ abs(r.tempo - tempo) <= tempo_tolerance)]

\* str(int(k[0])+1) + ('B' if k[1] == 'A' else 'A') if k[0] != '12'
\*     else '1' + ('B' if k[1] == 'A' else 'A')
dominant_final_key(k) ==
    IF Len(k) < 1 THEN Raise("IndexError")
    ELSE IF At(k, 0) # "12"
         THEN IF ~IsDigit(At(k, 0)) THEN Raise("ValueError")
              ELSE IF Len(k) < 2 THEN Raise("IndexError")
              ELSE Ok(str(int(At(k, 0)) + 1)
                      \o <<IF At(k, 1) = "A" THEN "B" ELSE "A">>)
         ELSE IF Len(k) < 2 THEN Raise("IndexError")
              ELSE Ok(<<"1">> \o <<IF At(k, 1) = "A" THEN "B" ELSE "A">>)

dominant_key_relative_major(df, tempo, camelot_key, tempo_tolerance) ==
    LET final_key == dominant_final_key(camelot_key)
    IN  IF final_key.err # "none" THEN [err |-> final_key.err, matches |-> <<>>]
        ELSE [err |-> "none",
              matches |-> SelectSeq(df, LAMBDA r :
                    /\ r.Camelot_Key = final_key.val
                    /\ abs(r.tempo - tempo) <= tempo_tolerance)]

\* The whole-step key computed one position up instead of two.
whole_step_final_key_one_up(k) ==
    IF Len(k) < 1 THEN Raise("IndexError")
    ELSE IF ~IsDigit(At(k, 0)) THEN Raise("ValueError")
    ELSE IF Len(k) < 2 THEN Raise("IndexError")
    ELSE Ok(str(int(At(k, 0)) + 1) \o <<At(k, 1)>>)

\* str(int(k[0])+2) + k[1] if k[0] not in ['11', '12']
\*     else str((int(k[0])+2)%12) + k[1]
whole_step_final_key(k) ==
    IF Len(k) < 1 THEN Raise("IndexError")
    ELSE IF ~IsDigit(At(k, 0)) THEN Raise("ValueError")
    ELSE IF Len(k) < 2 THEN Raise("IndexError")
    ELSE IF At(k, 0) \notin {"11", "12"}
         THEN Ok(str(int(At(k, 0)) + 2) \o <<At(k, 1)>>)
         ELSE Ok(str((int(At(k, 0)) + 2) % 12) \o <<At(k, 1)>>)

whole_step_up(df, tempo, camelot_key, tempo_tolerance) ==
    LET final_key == whole_step_final_key(camelot_key)
    IN  IF final_key.err # "none" THEN [err |-> final_key.err, matches |-> <<>>]
        ELSE [err |-> "none",
              matches |-> SelectSeq(df, LAMBDA r :
                    /\ r.Camelot_Key = final_key.val
                    /\ abs(r.tempo - tempo) <= tempo_tolerance)]

\* str(int(k[0])+7) + k[1] if k[0] not in ['6', ..., '12']
\*     else str((int(k[0])+7)%12) + k[1]
half_step_final_key(k) ==
    IF Len(k) < 1 THEN Raise("IndexError")
    ELSE IF ~IsDigit(At(k, 0)) THEN Raise("ValueError")
    ELSE IF Len(k) < 2 THEN Raise("IndexError")
    ELSE IF At(k, 0) \notin {"6", "7", "8", "9", "10", "11", "12"}
         THEN Ok(str(int(At(k, 0)) + 7) \o <<At(k, 1)>>)
         ELSE Ok(str((int(At(k, 0)) + 7) % 12) \o <<At(k, 1)>>)

\* The half-step rule returning its matches by descending tempo.
half_step_up_sorted(df, tempo, camelot_key, tempo_tolerance) ==
    LET final_key == half_step_final_key(camelot_key)
        matches == SelectSeq(df, LAMBDA r :
                    /\ r.Camelot_Key = final_key.val
                    /\ abs(r.tempo - tempo) <= tempo_tolerance)
    IN  IF final_key.err # "none" THEN [err |-> final_key.err, matches |-> <<>>]
        ELSE [err |-> "none",
              matches |-> IF Len(matches) = 2 /\ matches[1].tempo < matches[2].tempo
                          THEN <<matches[2], matches[1]>> ELSE matches]

half_step_up(df, tempo, camelot_key, tempo_tolerance) ==
    LET final_key == half_step_final_key(camelot_key)
    IN  IF final_key.err # "none" THEN [err |-> final_key.err, matches |-> <<>>]
        ELSE [err |-> "none",
              matches |-> SelectSeq(df, LAMBDA r :
                    /\ r.Camelot_Key = final_key.val
                    /\ abs(r.tempo - tempo) <= tempo_tolerance)]

\* str(int(k[0])-3) + k[1] if k[0] not in ['1', '2', '3']
\*     else str((int(k[0])-3)%12) + k[1]
minor_third_final_key(k) ==
    IF Len(k) < 1 THEN Raise("IndexError")
    ELSE IF ~IsDigit(At(k, 0)) THEN Raise("ValueError")
    ELSE IF Len(k) < 2 THEN Raise("IndexError")
    ELSE IF At(k, 0) \notin {"1", "2", "3"}
         THEN Ok(str(int(At(k, 0)) - 3) \o <<At(k, 1)>>)
         ELSE Ok(str((int(At(k, 0)) - 3) % 12) \o <<At(k, 1)>>)

minor_third_up(df, tempo, camelot_key, tempo_tolerance) ==
    LET final_key == minor_third_final_key(camelot_key)
    IN  IF final_key.err # "none" THEN [err |-> final_key.err, matches |-> <<>>]
        ELSE [err |-> "none",
              matches |-> SelectSeq(df, LAMBDA r :
                    /\ r.Camelot_Key = final_key.val
                    /\ abs(r.tempo - tempo) <= tempo_tolerance)]

(* -------------------------- match orchestrator ------------------------ *)

Failed(e) ==
    [err |-> e,
     matches_same |-> <<>>, matches_up |-> <<>>, matches_down |-> <<>>,
     dominant_matches |-> <<>>, whole_step_up_matches |-> <<>>,
     half_step_up_matches |-> <<>>, minor_third_up_matches |-> <<>>]

\* The resolution that answers an absent identifier with a default reference
\* instead of raising.
resolve_reference_defaulting(df, chosen_song_id, manual_tempo, manual_key) ==
    LET chosen_song == SelectSeq(df, LAMBDA r : r.ID = chosen_song_id)
    IN  IF manual_tempo = None /\ manual_key = None
        THEN IF Len(chosen_song) = 0
             THEN [err |-> "none", key |-> <<"1", "A">>, tempo |-> 0]
             ELSE [err |-> "none", key |-> chosen_song[1].Camelot_Key,
                   tempo |-> chosen_song[1].tempo]
        ELSE [err |-> "none", key |-> manual_key[1], tempo |-> manual_tempo[1]]

\* The resolution that looks the chosen identifier up in the pool whether or
\* not manual values are supplied.
resolve_reference_always_lookup(df, chosen_song_id, manual_tempo, manual_key) ==
    LET chosen_song == SelectSeq(df, LAMBDA r : r.ID = chosen_song_id)
    IN  IF Len(chosen_song) = 0
        THEN [err |-> "IndexError", key |-> None, tempo |-> 0]
        ELSE IF manual_tempo = None /\ manual_key = None
        THEN [err |-> "none", key |-> chosen_song[1].Camelot_Key,
              tempo |-> chosen_song[1].tempo]
        ELSE [err |-> "none", key |-> manual_key[1], tempo |-> manual_tempo[1]]

\* The reference's key and tempo: those of the pool's row with the chosen
\* identifier, or the manual ones.  manual_tempo and manual_key are None or
\* Some(value); .values[0] of no row raises IndexError.
resolve_reference(df, chosen_song_id, manual_tempo, manual_key) ==
    LET chosen_song == SelectSeq(df, LAMBDA r : r.ID = chosen_song_id)
    IN  IF manual_tempo = None /\ manual_key = None
        THEN IF Len(chosen_song) = 0
             THEN [err |-> "IndexError", key |-> None, tempo |-> 0]
             ELSE [err |-> "none", key |-> chosen_song[1].Camelot_Key,
                   tempo |-> chosen_song[1].tempo]
        ELSE [err |-> "none", key |-> manual_key[1], tempo |-> manual_tempo[1]]

\* The rules run in the source's order and the first exception ends the call.
get_all_matches(df, chosen_song_id, tempo_tolerance, manual_tempo, manual_key) ==
    LET ref == resolve_reference(df, chosen_song_id, manual_tempo, manual_key)
    IN  IF ref.err # "none" THEN Failed(ref.err)
        ELSE
        LET same == match_same_key_tempo(df, chosen_song_id, ref.tempo, ref.key, tempo_tolerance)
            fifth == matches_fifth(df, ref.tempo, ref.key, tempo_tolerance)
            dominant == dominant_key_relative_major(df, ref.tempo, ref.key, tempo_tolerance)
            whole == whole_step_up(df, ref.tempo, ref.key, tempo_tolerance)
            half == half_step_up(df, ref.tempo, ref.key, tempo_tolerance)
            minor == minor_third_up(df, ref.tempo, ref.key, tempo_tolerance)
        IN  IF same.err # "none" THEN Failed(same.err)
            ELSE IF fifth.err # "none" THEN Failed(fifth.err)
            ELSE IF dominant.err # "none" THEN Failed(dominant.err)
            ELSE IF whole.err # "none" THEN Failed(whole.err)
            ELSE IF half.err # "none" THEN Failed(half.err)
            ELSE IF minor.err # "none" THEN Failed(minor.err)
            ELSE [err |-> "none",
                  matches_same |-> same.matches,
                  matches_up |-> fifth.matches_up,
                  matches_down |-> fifth.matches_down,
                  dominant_matches |-> dominant.matches,
                  whole_step_up_matches |-> whole.matches,
                  half_step_up_matches |-> half.matches,
                  minor_third_up_matches |-> minor.matches]

(* ------------------------------- inputs ------------------------------- *)

\* The tracks a library can hold, as fetched (before the Camelot column is
\* added): three tracks in A minor (8A) at 120, 121 and 125 BPM, tracks on the
\* wheel positions the rules wrap to, and one track with no detected key.
\* Tempo and loudness are in tenths (of a BPM, of a dB), the four features of
\* [0, 1] in hundredths.
Track(id, key, mode, tempo, dance, energy, valence, acoustic, loudness) ==
    [ID |-> id, key |-> key, mode |-> mode, tempo |-> tempo,
     danceability |-> dance, energy |-> energy, valence |-> valence,
     acousticness |-> acoustic, loudness |-> loudness]

Catalogue ==
    << Track("t1", 9,  0, 1200, 70, 80, 55, 10, -60),    \* 8A
       Track("t2", 9,  0, 1210, 65, 75, 40, 5,  -55),    \* 8A
       Track("t3", 9,  0, 1250, 80, 90, 60, 2,  -40),    \* 8A
       Track("t4", 8,  0, 1200, 50, 60, 30, 20, -70),    \* 1A
       Track("t5", 1,  0, 1190, 55, 45, 35, 40, -82),    \* 12A
       Track("t6", 3,  0, 1200, 60, 70, 50, 15, -60),    \* 2A
       Track("t7", 6,  0, 1210, 75, 85, 65, 8,  -50),    \* 11A
       Track("t8", 3,  1, 1200, 45, 50, 70, 30, -90),    \* 5B
       Track("t9", -1, 0, 1204, 35, 40, 20, 60, -100) >> \* N/A

\* An identifier no track of the catalogue has.
AbsentId == "t0"

\* The pools as the session holds them: up to MaxPool different catalogue
\* tracks in any order, with the Camelot and tempo-group columns added
\* (identifiers are unique within a pool).
FeaturePools ==
    UNION { { add_tempo_grouping(
                convert_spotify_to_camelot([i \in 1..n |-> Catalogue[f[i]]])) :
                f \in { g \in [1..n -> 1..Len(Catalogue)] :
                          \A i, j \in 1..n : i # j => g[i] # g[j] } } :
            n \in 0..MaxPool }

\* A row with the columns the matching reads and the columns that make a
\* track what it is; the audio features no rule reads are left out.
match_columns(row) ==
    [ID |-> row.ID, key |-> row.key, mode |-> row.mode, tempo |-> row.tempo,
     Camelot_Key |-> row.Camelot_Key]

\* The pools the rules and the orchestrator are called on.
Pools == { [i \in 1..Len(df) |-> match_columns(df[i])] : df \in FeaturePools }

Letters == {"A", "B"}

\* The 24 codes of the wheel.
WheelCodes == { str(p) \o <<l>> : p \in 1..12, l \in Letters }

\* A reference key entered by hand, or the key of an unmapped track.
Keys == WheelCodes \cup {NotAvailable}

\* The reference tempo of a direct call: 120 BPM.
Tempos == {1200}

\* Tempo tolerances: 0, 1 and 5 BPM.
Tolerances == {0, 10, 50}

\* The frames add_tempo_grouping is given: one to MaxPool fetched rows, each
\* with a tempo (119.6, 120.4 or 120.5 BPM) or without one.
TempoFrames ==
    UNION { { [i \in 1..n |->
                IF f[i] = 0 THEN [ID |-> Catalogue[i].ID]
                ELSE [ID |-> Catalogue[i].ID, tempo |-> f[i]]] :
                f \in [1..n -> {0, 1196, 1204, 1205}] } :
            n \in 1..MaxPool }

\* The identifiers a caller can name: those of the pool and an absent one.
Ids == { features_df[i].ID : i \in 1..Len(features_df) } \cup {AbsentId}

(* ------------------------------- actions ------------------------------ *)

\* The rules and the orchestrator are pure: a behaviour is one call on a
\* loaded pool, op naming the function called, args its arguments and ret
\* what it returned or raised.

Init ==
    /\ features_df \in Pools
    /\ op = "none"
    /\ args = None
    /\ ret = None

MatchSameKeyTempo ==
    \E id \in Ids, t \in Tempos, k \in Keys, tol \in Tolerances :
        /\ op = "none"
        /\ op' = "match_same_key_tempo"
        /\ args' = [chosen_song_id |-> id, tempo |-> t, camelot_key |-> k,
                    tempo_tolerance |-> tol]
        /\ ret' = match_same_key_tempo(features_df, id, t, k, tol)
        /\ UNCHANGED features_df

MatchesFifth ==
    \E t \in Tempos, k \in Keys, tol \in Tolerances :
        /\ op = "none"
        /\ op' = "matches_fifth"
        /\ args' = [tempo |-> t, camelot_key |-> k, tempo_tolerance |-> tol]
        /\ ret' = matches_fifth(features_df, t, k, tol)
        /\ UNCHANGED features_df

DominantKeyRelativeMajor ==
    \E t \in Tempos, k \in Keys, tol \in Tolerances :
        /\ op = "none"
        /\ op' = "dominant_key_relative_major"
        /\ args' = [tempo |-> t, camelot_key |-> k, tempo_tolerance |-> tol]
        /\ ret' = dominant_key_relative_major(features_df, t, k, tol)
        /\ UNCHANGED features_df

WholeStepUp ==
    \E t \in Tempos, k \in Keys, tol \in Tolerances :
        /\ op = "none"
        /\ op' = "whole_step_up"
        /\ args' = [tempo |-> t, camelot_key |-> k, tempo_tolerance |-> tol]
        /\ ret' = whole_step_up(features_df, t, k, tol)
        /\ UNCHANGED features_df

HalfStepUp ==
    \E t \in Tempos, k \in Keys, tol \in Tolerances :
        /\ op = "none"
        /\ op' = "half_step_up"
        /\ args' = [tempo |-> t, camelot_key |-> k, tempo_tolerance |-> tol]
        /\ ret' = half_step_up(features_df, t, k, tol)
        /\ UNCHANGED features_df

MinorThirdUp ==
    \E t \in Tempos, k \in Keys, tol \in Tolerances :
        /\ op = "none"
        /\ op' = "minor_third_up"
        /\ args' = [tempo |-> t, camelot_key |-> k, tempo_tolerance |-> tol]
        /\ ret' = minor_third_up(features_df, t, k, tol)
        /\ UNCHANGED features_df

\* Both manual values or neither (the caller's contract).
GetAllMatches ==
    \E id \in Ids, tol \in Tolerances,
       m \in {<<None, None>>} \cup { <<Some(t), Some(k)>> : t \in Tempos, k \in Keys } :
        /\ op = "none"
        /\ op' = "get_all_matches"
        /\ args' = [chosen_song_id |-> id, tempo_tolerance |-> tol,
                    manual_tempo |-> m[1], manual_key |-> m[2]]
        /\ ret' = get_all_matches(features_df, id, tol, m[1], m[2])
        /\ UNCHANGED features_df

\* The session of the filter page starts on a pool with all its columns.
FilterInit ==
    /\ features_df \in FeaturePools
    /\ op = "none"
    /\ args = None
    /\ ret = None

\* The tempo groups are added while the frame is built, before the session
\* holds a pool.
AddTempoGrouping ==
    \E df \in TempoFrames :
        /\ op = "none"
        /\ features_df = <<>>
        /\ op' = "add_tempo_grouping"
        /\ args' = [df |-> df]
        /\ ret' = [err |-> "none", df |-> add_tempo_grouping(df)]
        /\ UNCHANGED features_df

\* The filter runs on the session's pool, which has rows.
FilterSongs ==
    /\ op = "none"
    /\ Len(features_df) > 0
    /\ op' = "filter_songs"
    /\ args' = None
    /\ ret' = filter_songs(features_df)
    /\ UNCHANGED features_df

Next ==
    \/ MatchSameKeyTempo
    \/ MatchesFifth
    \/ DominantKeyRelativeMajor
    \/ WholeStepUp
    \/ HalfStepUp
    \/ MinorThirdUp
    \/ GetAllMatches

Spec == Init /\ [][Next]_vars

FilterNext ==
    \/ AddTempoGrouping
    \/ FilterSongs

\* One call of the tempo grouper or of the filter engine.
FilterSpec == FilterInit /\ [][FilterNext]_vars

(* ------------------------- the wheel, as specified -------------------- *)

Code(p, l) == str(p) \o <<l>>

Position(k) == CHOOSE p \in 1..12 : \E l \in Letters : Code(p, l) = k

Letter(k) == CHOOSE l \in Letters : \E p \in 1..12 : Code(p, l) = k

Flip(l) == IF l = "A" THEN "B" ELSE "A"

\* p' = ((p - 1 + delta) mod 12) + 1, the letter flipped or kept.
Transform(k, delta, flip) ==
    Code(((Position(k) - 1 + delta) % 12) + 1,
         IF flip THEN Flip(Letter(k)) ELSE Letter(k))

InWindow(r, tempo, tol) == tempo - tol <= r.tempo /\ r.tempo <= tempo + tol

\* The pool's tracks with the given code inside the tempo window.
Expected(df, tempo, tol, code) ==
    SelectSeq(df, LAMBDA r : r.Camelot_Key = code /\ InWindow(r, tempo, tol))

Rows(seq) == { seq[i] : i \in 1..Len(seq) }

DirectCall(name) == op = name /\ args.camelot_key \in WheelCodes

(* ------------------------------- claims ------------------------------- *)

\* C1: fifth up from a code at position p, letter l, returns exactly the pool
\* tracks in the tempo window whose code is position ((p - 1 + 1) mod 12) + 1
\* with letter l.
C1_FifthUp ==
    DirectCall("matches_fifth") =>
        /\ ret.err = "none"
        /\ ret.matches_up = Expected(features_df, args.tempo, args.tempo_tolerance,
                                     Transform(args.camelot_key, 1, FALSE))

\* C2: fifth down from a code at position p, letter l, returns exactly the
\* pool tracks in the tempo window whose code is position
\* ((p - 1 - 1) mod 12) + 1 with letter l.
C2_FifthDown ==
    DirectCall("matches_fifth") =>
        /\ ret.err = "none"
        /\ ret.matches_down = Expected(features_df, args.tempo, args.tempo_tolerance,
                                       Transform(args.camelot_key, -1, FALSE))

\* C3: the dominant relative of a code at position p, letter l, returns
\* exactly the pool tracks in the tempo window whose code is position
\* ((p - 1 + 1) mod 12) + 1 with the other letter.
C3_DominantRelative ==
    DirectCall("dominant_key_relative_major") =>
        /\ ret.err = "none"
        /\ ret.matches = Expected(features_df, args.tempo, args.tempo_tolerance,
                                  Transform(args.camelot_key, 1, TRUE))

\* C4: a whole step up from a code at position p, letter l, returns exactly
\* the pool tracks in the tempo window whose code is position
\* ((p - 1 + 2) mod 12) + 1 with letter l.
C4_WholeStepUp ==
    DirectCall("whole_step_up") =>
        /\ ret.err = "none"
        /\ ret.matches = Expected(features_df, args.tempo, args.tempo_tolerance,
                                  Transform(args.camelot_key, 2, FALSE))

\* C5: a half step up from a code at position p, letter l, returns exactly
\* the pool tracks in the tempo window whose code is position
\* ((p - 1 + 7) mod 12) + 1 with letter l.
C5_HalfStepUp ==
    DirectCall("half_step_up") =>
        /\ ret.err = "none"
        /\ ret.matches = Expected(features_df, args.tempo, args.tempo_tolerance,
                                  Transform(args.camelot_key, 7, FALSE))

\* C6: a minor third up from a code at position p, letter l, returns exactly
\* the pool tracks in the tempo window whose code is position
\* ((p - 1 - 3) mod 12) + 1 with letter l.
C6_MinorThirdUp ==
    DirectCall("minor_third_up") =>
        /\ ret.err = "none"
        /\ ret.matches = Expected(features_df, args.tempo, args.tempo_tolerance,
                                  Transform(args.camelot_key, -3, FALSE))

\* C7: the same-key rule returns exactly the pool tracks with the reference
\* code, inside the tempo window, whose identifier is not the reference's; the
\* reference track is in no same-key result, of a direct call or of
\* get_all_matches.
C7_SameKeyExcludesReference ==
    /\ op = "match_same_key_tempo" =>
        /\ ret.err = "none"
        /\ ret.matches = SelectSeq(features_df, LAMBDA r :
                            /\ r.Camelot_Key = args.camelot_key
                            /\ InWindow(r, args.tempo, args.tempo_tolerance)
                            /\ r.ID # args.chosen_song_id)
    /\ (op = "get_all_matches" /\ ret.err = "none") =>
        \A r \in Rows(ret.matches_same) : r.ID # args.chosen_song_id

\* C7's case: the reference track is in the pool with another track of its
\* key inside the window, and the call returned that other track alone.
C7_Witness ==
    /\ op = "match_same_key_tempo"
    /\ args.tempo_tolerance > 0
    /\ \E i, j \in 1..Len(features_df) :
        /\ i # j
        /\ features_df[i].ID = args.chosen_song_id
        /\ features_df[i].Camelot_Key = args.camelot_key
        /\ features_df[i].tempo = args.tempo
        /\ features_df[j].tempo # args.tempo
        /\ ret.matches = <<features_df[j]>>

Resolved == op = "get_all_matches" /\ ret.err = "none"

Manual == args.manual_tempo # None \/ args.manual_key # None

\* The reference of a get_all_matches call that resolved.
ReferenceRow ==
    features_df[CHOOSE i \in 1..Len(features_df) :
                    /\ features_df[i].ID = args.chosen_song_id
                    /\ \A j \in 1..(i - 1) : features_df[j].ID # args.chosen_song_id]

ReferenceTempo == IF Manual THEN args.manual_tempo[1] ELSE ReferenceRow.tempo

ReferenceKey == IF Manual THEN args.manual_key[1] ELSE ReferenceRow.Camelot_Key

SevenResults ==
    << ret.matches_same, ret.matches_up, ret.matches_down, ret.dominant_matches,
       ret.whole_step_up_matches, ret.half_step_up_matches,
       ret.minor_third_up_matches >>

LookupErrors == {"LookupError", "IndexError", "KeyError"}

UnresolvedReference ==
    /\ op = "get_all_matches"
    /\ args.manual_tempo = None
    /\ args.manual_key = None
    /\ \A q \in Rows(features_df) : q.ID # args.chosen_song_id

\* C9: get_all_matches with no manual tempo, no manual key and a reference
\* identifier that no track of the pool has raises a LookupError (IndexError
\* is one) and returns no result sets.
C9_AbsentReferenceRaises ==
    UnresolvedReference =>
        /\ ret.err \in LookupErrors
        /\ \A n \in 1..7 : SevenResults[n] = <<>>

\* C9's case: a pool with tracks, none of them the chosen one, and the call
\* has raised.
C9_Witness ==
    /\ UnresolvedReference
    /\ Len(features_df) > 0
    /\ ret.err = "IndexError"

NotAvailableReference ==
    /\ op = "get_all_matches"
    /\ IF Manual THEN args.manual_key = Some(NotAvailable)
       ELSE \E q \in Rows(features_df) :
                q.ID = args.chosen_song_id /\ q.Camelot_Key = NotAvailable

\* C10: when the reference's Camelot code is 'N/A', get_all_matches does not
\* raise and each of the seven rules returns an empty set.
C10_NotAvailableReferenceIsEmpty ==
    NotAvailableReference =>
        /\ ret.err = "none"
        /\ \A n \in 1..7 : SevenResults[n] = <<>>

\* C11: with both manual values supplied, get_all_matches raises no lookup
\* failure and what it returns is the same for every reference identifier,
\* in the pool or not.
C11_ManualIgnoresReferenceId ==
    (op = "get_all_matches" /\ Manual) =>
        /\ ret.err \notin LookupErrors
        /\ \A id \in Ids :
             get_all_matches(features_df, id, args.tempo_tolerance,
                             args.manual_tempo, args.manual_key) = ret

ManualWheelReference ==
    /\ op = "get_all_matches"
    /\ Manual
    /\ args.manual_key[1] \in WheelCodes

\* C12: get_all_matches with a manual reference on the wheel and an empty
\* pool raises nothing and returns seven empty sets.
C12_ManualEmptyPool ==
    (ManualWheelReference /\ features_df = <<>>) =>
        /\ ret.err = "none"
        /\ \A n \in 1..7 : SevenResults[n] = <<>>

\* C12's case: a tempo and the key "5B" entered by hand, no track in the
\* pool, and the call has returned.
C12_Witness ==
    /\ ManualWheelReference
    /\ features_df = <<>>
    /\ args.manual_tempo # None
    /\ args.manual_key = Some(<<"5", "B">>)
    /\ ret.err = "none"

\* s is t with rows left out: the rows of s are rows of t, in t's order.
IsSubSeq(s, t) ==
    \E f \in [1..Len(s) -> 1..Len(t)] :
        /\ \A i \in 1..Len(s) : t[f[i]] = s[i]
        /\ \A i, j \in 1..Len(s) : i < j => f[i] < f[j]

\* C15: a get_all_matches call leaves the pool as it was, and each of its
\* seven result sets is the pool with rows left out, in the pool's order.
C15_ResultsAreOrderedViews ==
    [][(op' = "get_all_matches" /\ ret'.err = "none") =>
            /\ features_df' = features_df
            /\ \A n \in 1..7 : IsSubSeq(SevenResults'[n], features_df)]_vars

\* C15's case: a result set with two tracks, from different places of the
\* pool.
C15_Witness ==
    /\ Resolved
    /\ \E n \in 1..7 :
        /\ Len(SevenResults[n]) = 2
        /\ SevenResults[n][1].tempo > SevenResults[n][2].tempo

\* The seven codes the rules compare the pool with, for the call's reference.
TargetCodes ==
    << ReferenceKey,
       camelot_key_up(ReferenceKey).val,
       camelot_key_down(ReferenceKey).val,
       dominant_final_key(ReferenceKey).val,
       whole_step_final_key(ReferenceKey).val,
       half_step_final_key(ReferenceKey).val,
       minor_third_final_key(ReferenceKey).val >>

\* C16: when get_all_matches returns, its seven target codes are pairwise
\* different and no track is in two of the seven result sets.
C16_ResultSetsDisjoint ==
    Resolved =>
        LET codes == TargetCodes
            sets == [n \in 1..7 |-> Rows(SevenResults[n])]
        IN  \A m, n \in 1..7 : m # n =>
                /\ codes[m] # codes[n]
                /\ sets[m] \cap sets[n] = {}

\* C16's case: two of the seven result sets hold a track each.
C16_Witness ==
    /\ Resolved
    /\ \E m, n \in 1..7 :
        /\ m # n
        /\ SevenResults[m] # <<>>
        /\ SevenResults[n] # <<>>

\* The tempo and loudness sliders have a minimum below their maximum.
SlidersHaveRoom ==
    /\ int_of_float(column_min(features_df, "tempo"))
         < int_of_float(column_max(features_df, "tempo"))
    /\ int_of_float(column_min(features_df, "loudness"))
         < int_of_float(column_max(features_df, "loudness"))

\* C13: with every slider left at its default, each of the six default ranges
\* spans the pool's minimum and maximum of its feature, and filter_songs
\* returns the whole pool (stated for the pools whose tempo and loudness
\* sliders have room between their ends).
C13_DefaultRangesKeepThePool ==
    (op = "filter_songs" /\ SlidersHaveRoom) =>
        /\ \A f \in Features :
            /\ ret.ranges[f][1] <= column_min(features_df, f)
            /\ ret.ranges[f][2] >= column_max(features_df, f)
        /\ ret.filtered_df = features_df

\* C14: add_tempo_grouping gives each track with a tempo the nearest whole
\* BPM as its group and each track without a tempo the group 0, whatever the
\* other tracks of the frame have.
C14_TempoGroupPerTrack ==
    op = "add_tempo_grouping" =>
        /\ Len(ret.df) = Len(args.df)
        /\ \A i \in 1..Len(args.df) :
            LET group == ret.df[i].Tempo_Group
            IN  IF "tempo" \in DOMAIN args.df[i]
                THEN /\ ~group.nan
                     /\ group.val % 10 = 0
                     /\ abs(group.val - args.df[i].tempo) <= 5
                ELSE group = Float(0)

====
